---- MODULE Spec2Model ----
(***************************************************************************)
(* Knowledge-graph construction (src/kg.py) and hybrid retrieval           *)
(* (src/src/search_utils.py) of the erag repository.                       *)
(*                                                                         *)
(* Text is modelled at the character level where the code looks at         *)
(* characters (substring tests, str.find, str.lower): a word is a TLA+     *)
(* string whose characters are given by Chars, a sentence is a sequence of *)
(* words, a chunk a sequence of sentences, and the text of either is the   *)
(* words joined by single blanks.  The outputs of the external models      *)
(* (spaCy's tagger, parser and NER, NLTK's chunker, the sentence encoder)  *)
(* are inputs: fixed tables per word, a parse shape per sentence, an       *)
(* angle per embedding.  Similarities and scores are scaled integers       *)
(* (hundredths for cosines, thousandths for relevance scores).             *)
(* Entity surface forms are never of the form doc_<i>: the words of the    *)
(* vocabulary and the passage node ids do not overlap.                     *)
(***************************************************************************)
EXTENDS Integers, Sequences, FiniteSets, TLC

VARIABLES
  text,             \* extract_family_relations: its argument
  family_triples,   \* extract_family_relations: its return value
  fpc,              \* "call" before the call, "done" after it, "idle" when unused
  data,             \* create_networkx_graph: the chunks
  embeddings,       \* create_networkx_graph: the embeddings, one angle each
  G,                \* the graph create_networkx_graph returned, as pruned since
  pc,               \* "start", "built", "pruned", or the exception the build raised
  min_edge_weight,  \* the threshold of the last prune_graph call
  G_before,         \* the graph handed to the last prune_graph call
  ctor,             \* SearchUtils.__init__: [has_encode, args, files, store]
  search_utils,     \* the SearchUtils object: self
  spc,              \* "new" before __init__, "ready" after it, "raised" if it raised
  settings,         \* the settings object, as read by the last call
  call,             \* the last call: [op, query]
  result            \* what the last call returned or raised: [raised, value]

(***************************************************************************)
(* Bounds of the model.                                                    *)
(***************************************************************************)
MaxTokens == 3      \* words per sentence of a text handed to the family pass
MaxChunks == 2      \* chunks of a corpus whose texts vary
MaxSimChunks == 3   \* chunks of a corpus whose embeddings vary
MaxTopK == 2        \* settings.top_k

(***************************************************************************)
(* Python strings.                                                         *)
(***************************************************************************)
Chars(w) ==
  CASE
        w = "sister" -> << "s", "i", "s", "t", "e", "r" >>
     [] w = "sisters" -> << "s", "i", "s", "t", "e", "r", "s" >>
     [] w = "brother" -> << "b", "r", "o", "t", "h", "e", "r" >>
     [] w = "brothers" -> << "b", "r", "o", "t", "h", "e", "r", "s" >>
     [] w = "father" -> << "f", "a", "t", "h", "e", "r" >>
     [] w = "mother" -> << "m", "o", "t", "h", "e", "r" >>
     [] w = "parent" -> << "p", "a", "r", "e", "n", "t" >>
     [] w = "parents" -> << "p", "a", "r", "e", "n", "t", "s" >>
     [] w = "son" -> << "s", "o", "n" >>
     [] w = "sons" -> << "s", "o", "n", "s" >>
     [] w = "daughter" -> << "d", "a", "u", "g", "h", "t", "e", "r" >>
     [] w = "daughters" -> << "d", "a", "u", "g", "h", "t", "e", "r", "s" >>
     [] w = "husband" -> << "h", "u", "s", "b", "a", "n", "d" >>
     [] w = "wife" -> << "w", "i", "f", "e" >>
     [] w = "spouse" -> << "s", "p", "o", "u", "s", "e" >>
     [] w = "grandfather" -> << "g", "r", "a", "n", "d", "f", "a", "t", "h", "e", "r" >>
     [] w = "grandmother" -> << "g", "r", "a", "n", "d", "m", "o", "t", "h", "e", "r" >>
     [] w = "grandparent" -> << "g", "r", "a", "n", "d", "p", "a", "r", "e", "n", "t" >>
     [] w = "grandparents" -> << "g", "r", "a", "n", "d", "p", "a", "r", "e", "n", "t", "s" >>
     [] w = "grandson" -> << "g", "r", "a", "n", "d", "s", "o", "n" >>
     [] w = "granddaughter" -> << "g", "r", "a", "n", "d", "d", "a", "u", "g", "h", "t", "e", "r" >>
     [] w = "grandchild" -> << "g", "r", "a", "n", "d", "c", "h", "i", "l", "d" >>
     [] w = "grandchildren" -> << "g", "r", "a", "n", "d", "c", "h", "i", "l", "d", "r", "e", "n" >>
     [] w = "uncle" -> << "u", "n", "c", "l", "e" >>
     [] w = "aunt" -> << "a", "u", "n", "t" >>
     [] w = "cousin" -> << "c", "o", "u", "s", "i", "n" >>
     [] w = "cousins" -> << "c", "o", "u", "s", "i", "n", "s" >>
     [] w = "niece" -> << "n", "i", "e", "c", "e" >>
     [] w = "nephew" -> << "n", "e", "p", "h", "e", "w" >>
     [] w = "John" -> << "J", "o", "h", "n" >>
     [] w = "Mary" -> << "M", "a", "r", "y" >>
     [] w = "Jason" -> << "J", "a", "s", "o", "n" >>
     [] w = "Acme" -> << "A", "c", "m", "e" >>
     [] w = "met" -> << "m", "e", "t" >>
     [] w = "of" -> << "o", "f" >>
     [] w = "child" -> << "c", "h", "i", "l", "d" >>
     [] w = "Monday" -> << "M", "o", "n", "d", "a", "y" >>

\* str.lower() on one character (the capitals the vocabulary uses)
LowerChar(c) ==
  CASE c = "J" -> "j"
    [] c = "M" -> "m"
    [] c = "A" -> "a"
    [] OTHER -> c

\* str.lower()
Lower(cs) == [i \in 1..Len(cs) |-> LowerChar(cs[i])]

\* `p in t` on strings
IsSubstring(p, t) ==
  \E i \in 0..(Len(t) - Len(p)) : SubSeq(t, i + 1, i + Len(p)) = p

\* t.find(p): the 0-based offset of the first occurrence, -1 when there is none
Find(p, t) ==
  IF IsSubstring(p, t)
    THEN CHOOSE i \in 0..(Len(t) - Len(p)) :
           /\ SubSeq(t, i + 1, i + Len(p)) = p
           /\ \A h \in 0..(i - 1) : SubSeq(t, h + 1, h + Len(p)) # p
    ELSE -1

RECURSIVE Flatten(_)
\* the concatenation of a sequence of sequences, in order
Flatten(ss) ==
  IF ss = <<>> THEN <<>> ELSE Head(ss) \o Flatten(Tail(ss))

Range(s) == {s[i] : i \in 1..Len(s)}

RECURSIVE JoinChars(_)
\* ' '.join(words), as characters
JoinChars(ws) ==
  IF ws = <<>> THEN <<>>
  ELSE IF Len(ws) = 1 THEN Chars(ws[1])
  ELSE Chars(ws[1]) \o <<" ">> \o JoinChars(Tail(ws))

(***************************************************************************)
(* spaCy's view of a text: nlp(text).  A chunk is a sequence of sentences  *)
(* (doc.sents), a sentence a record [tokens, tree]: its words and the      *)
(* shape of its dependency parse.                                          *)
(***************************************************************************)
\* ent.label_ of a word the recogniser marks as an entity, "" for any other word
NerLabel(w) ==
  CASE w \in {"John", "Mary", "Jason"} -> "PERSON"
    [] w = "Acme" -> "ORG"
    [] w = "Monday" -> "DATE"
    [] OTHER -> ""

\* token.pos_
Pos(w) ==
  CASE w = "met" -> "VERB"
    [] w = "of" -> "ADP"
    [] NerLabel(w) # "" -> "PROPN"
    [] OTHER -> "NOUN"

\* token.lemma_
Lemma(w) == IF w = "met" THEN "meet" ELSE w

\* the words of a chunk, in order (the tokens of the doc)
DocTokens(chunk) == Flatten([s \in 1..Len(chunk) |-> chunk[s].tokens])

\* sent.text of one sentence; doc.text of a chunk
SentText(sent) == JoinChars(sent.tokens)
ChunkText(chunk) == JoinChars(DocTokens(chunk))

\* sent.start: the doc index (0-based) of the first token of sentence s
SentStart(chunk, s) == Len(DocTokens(SubSeq(chunk, 1, s - 1)))
\* sent.end
SentEnd(chunk, s) == SentStart(chunk, s) + Len(chunk[s].tokens)

FAMILY_RELATIONS ==
  << "sister", "sisters", "brother", "brothers", "father", "mother", "parent", "parents",
     "son", "sons", "daughter", "daughters", "husband", "wife", "spouse",
     "grandfather", "grandmother", "grandparent", "grandparents",
     "grandson", "granddaughter", "grandchild", "grandchildren",
     "uncle", "aunt", "cousin", "cousins", "niece", "nephew" >>

\* `relation in sent.text.lower()`
InSentence(relation, sent) == IsSubstring(Chars(relation), Lower(SentText(sent)))

\* the index pairs of `for i ...: for j in range(i+1, n)`, in loop order
Pairs(n) == Flatten([i \in 1..n |-> [d \in 1..(n - i) |-> <<i, i + d>>]])

(***************************************************************************)
(* extract_family_relations                                                *)
(***************************************************************************)
\* a reverse relation for every keyword, not only the three the code names
ReverseRelationAll(relation, e1, e2) ==
  IF relation = "parent" THEN << <<e2, "child", e1>> >>
  ELSE << <<e2, relation, e1>> >>

\* "# Add reverse relation": what is appended after (e1, relation, e2)
ReverseRelation(relation, e1, e2) ==
  IF relation \in {"sister", "brother"} THEN << <<e2, relation, e1>> >>
  ELSE IF relation = "parent" THEN << <<e2, "child", e1>> >>
  ELSE IF relation = "child" THEN << <<e2, "parent", e1>> >>
  ELSE <<>>

\* [ent for ent in sent.ents if ent.label_ == 'PERSON'], as texts
SentPersons(sent) == SelectSeq(sent.tokens, LAMBDA w : NerLabel(w) = "PERSON")

\* the triples of one pair of entities: the loop over FAMILY_RELATIONS
FamilyTriplesOfPair(sent, e1, e2) ==
  LET found == SelectSeq(FAMILY_RELATIONS, LAMBDA relation : InSentence(relation, sent))
  IN  Flatten([r \in 1..Len(found) |->
                 << <<e1, found[r], e2>> >> \o ReverseRelation(found[r], e1, e2)])

\* the triples of one sentence: the loops over i and j
FamilyTriplesOfSent(sent) ==
  LET entities == SentPersons(sent)
      pairs == Pairs(Len(entities))
  IN  Flatten([p \in 1..Len(pairs) |->
                 FamilyTriplesOfPair(sent, entities[pairs[p][1]], entities[pairs[p][2]])])

extract_family_relations(chunk) ==
  Flatten([s \in 1..Len(chunk) |-> FamilyTriplesOfSent(chunk[s])])

(***************************************************************************)
(* extract_key_entities and extract_relations                              *)
(***************************************************************************)
KeyLabels == {"PERSON", "ORG", "GPE", "LOC", "PRODUCT", "EVENT", "WORK_OF_ART"}

\* the (text, label) pairs of the entities of the doc with an allowed label
extract_key_entities(chunk) ==
  LET toks == DocTokens(chunk)
  IN  Flatten([k \in 1..Len(toks) |->
                 IF NerLabel(toks[k]) \in KeyLabels
                   THEN << <<toks[k], NerLabel(toks[k])>> >>
                   ELSE <<>>])

\* the character offset at which doc token k (0-based) starts in doc.text
TokenOffset(chunk, k) ==
  IF k = 0 THEN 0 ELSE Len(JoinChars(SubSeq(DocTokens(chunk), 1, k))) + 1

\* doc.char_span(start, end): the span of the token that starts at `start` and
\* ends at `end`, as a one-element sequence; None (empty) when the offsets are
\* not token boundaries.  An entity is one word, so is its span.
CharSpan(chunk, start, end) ==
  LET toks == DocTokens(chunk)
      hit == {k \in 0..(Len(toks) - 1) :
                /\ TokenOffset(chunk, k) = start
                /\ start + Len(Chars(toks[k + 1])) = end}
  IN  IF hit = {} THEN <<>>
      ELSE LET k == CHOOSE h \in hit : TRUE
           IN  << [start |-> k, end |-> k + 1, text |-> toks[k + 1]] >>

\* the loop over key_entities: text.find(ent), then doc.char_span
EntitySpans(chunk, key_entities) ==
  Flatten([e \in 1..Len(key_entities) |->
             LET ent == Chars(key_entities[e][1])
                 start == Find(ent, ChunkText(chunk))
             IN  IF start # -1 THEN CharSpan(chunk, start, start + Len(ent)) ELSE <<>>])

\* entity.root.subtree, as doc token indices: the token alone in a flat parse,
\* the token and everything to its right in its sentence in a right-branching one
Subtree(chunk, s, span) ==
  IF chunk[s].tree = "right" THEN span.start..(SentEnd(chunk, s) - 1) ELSE {span.start}

RECURSIVE SortedSeq(_)
\* sorted(set, key=token index)
SortedSeq(S) ==
  IF S = {} THEN <<>>
  ELSE LET m == CHOOSE x \in S : \A y \in S : x <= y
       IN  <<m>> \o SortedSeq(S \ {m})

RECURSIVE JoinStr(_)
\* ' '.join(strings)
JoinStr(ws) ==
  IF ws = <<>> THEN ""
  ELSE IF Len(ws) = 1 THEN ws[1]
  ELSE ws[1] \o " " \o JoinStr(Tail(ws))

\* the lemmas of the verbs and adpositions on the path of two entities
PathRelation(chunk, s, entity1, entity2) ==
  LET toks == DocTokens(chunk)
      path == SortedSeq(Subtree(chunk, s, entity1) \cup Subtree(chunk, s, entity2))
      kept == SelectSeq(path, LAMBDA k : Pos(toks[k + 1]) \in {"VERB", "ADP"})
  IN  JoinStr([x \in 1..Len(kept) |-> Lemma(toks[kept[x] + 1])])

\* next((rel for rel in FAMILY_RELATIONS if rel in sent.text.lower()), None); None is ""
FirstFamilyRelation(sent) ==
  LET found == {r \in 1..Len(FAMILY_RELATIONS) : InSentence(FAMILY_RELATIONS[r], sent)}
  IN  IF found = {} THEN ""
      ELSE FAMILY_RELATIONS[CHOOSE r \in found : \A q \in found : r <= q]

\* the family keyword overrides the path relation
RelationLabel(chunk, s, entity1, entity2) ==
  LET family_relation == FirstFamilyRelation(chunk[s])
  IN  IF family_relation # "" THEN family_relation
      ELSE PathRelation(chunk, s, entity1, entity2)

\* the triples of one sentence of extract_relations
RelationsOfSent(chunk, s, entity_spans) ==
  LET sent_entities ==
        SelectSeq(entity_spans,
                  LAMBDA span : /\ span.start >= SentStart(chunk, s)
                                /\ span.end <= SentEnd(chunk, s))
      pairs == Pairs(Len(sent_entities))
  IN  Flatten([p \in 1..Len(pairs) |->
                 LET entity1 == sent_entities[pairs[p][1]]
                     entity2 == sent_entities[pairs[p][2]]
                     relation == RelationLabel(chunk, s, entity1, entity2)
                 IN  IF relation # ""
                       THEN << <<entity1.text, relation, entity2.text>> >>
                       ELSE <<>>])

extract_relations(chunk, key_entities) ==
  LET entity_spans == EntitySpans(chunk, key_entities)
  IN  Flatten([s \in 1..Len(chunk) |-> RelationsOfSent(chunk, s, entity_spans)])

(***************************************************************************)
(* networkx.Graph: nodes in insertion order, an attribute dict per node,   *)
(* the neighbours of a node in insertion order, and one attribute dict per *)
(* unordered pair of adjacent nodes.  A dict is a function on its keys.    *)
(***************************************************************************)
EmptyDict == <<>>

EmptyGraph == [nodes |-> <<>>, attr |-> EmptyDict, adj |-> EmptyDict, edge |-> EmptyDict]

\* d[k] = v
Put(d, k, v) == [x \in DOMAIN d \cup {k} |-> IF x = k THEN v ELSE d[x]]

\* d.update(new)
Update(d, new) ==
  [k \in DOMAIN d \cup DOMAIN new |-> IF k \in DOMAIN new THEN new[k] ELSE d[k]]

has_node(g, n) == n \in Range(g.nodes)

\* G.add_node(n, **attrs)
add_node(g, n, attrs) ==
  IF has_node(g, n)
    THEN [g EXCEPT !.attr = Put(g.attr, n, Update(g.attr[n], attrs))]
    ELSE [g EXCEPT !.nodes = Append(g.nodes, n),
                   !.attr = Put(g.attr, n, attrs),
                   !.adj = Put(g.adj, n, <<>>)]

\* the key under which Graph stores the edge of u and v: the unordered pair
EdgeKey(u, v) == {u, v}

\* G.add_edge(u, v, **attrs): missing endpoints are added without attributes,
\* an existing edge keeps its attributes and is updated with the new ones
add_edge(g, u, v, attrs) ==
  LET g1 == IF has_node(g, u) THEN g ELSE add_node(g, u, EmptyDict)
      g2 == IF has_node(g1, v) THEN g1 ELSE add_node(g1, v, EmptyDict)
      e == EdgeKey(u, v)
      old == IF e \in DOMAIN g2.edge THEN g2.edge[e] ELSE EmptyDict
      adjU == IF v \in Range(g2.adj[u]) THEN g2.adj[u] ELSE Append(g2.adj[u], v)
      A1 == Put(g2.adj, u, adjU)
      adjV == IF u \in Range(A1[v]) THEN A1[v] ELSE Append(A1[v], u)
  IN  [g2 EXCEPT !.adj = Put(A1, v, adjV),
                 !.edge = Put(g2.edge, e, Update(old, attrs))]

\* G.remove_edges_from(edges)
remove_edges_from(g, edges) ==
  [g EXCEPT !.edge = [e \in DOMAIN g.edge \ edges |-> g.edge[e]],
            !.adj = [n \in DOMAIN g.adj |->
                       SelectSeq(g.adj[n], LAMBDA m : EdgeKey(n, m) \notin edges)]]

\* G.neighbors(n)
neighbors(g, n) == g.adj[n]

(***************************************************************************)
(* create_networkx_graph and prune_graph                                   *)
(***************************************************************************)
SimilarityThreshold == 70     \* similarity > 0.7
DefaultMinEdgeWeight == 70    \* min_edge_weight: float = 0.7

\* ' '.join(text.split()): empty words go, the rest is joined by single blanks
preprocess_text(chunk) ==
  [s \in 1..Len(chunk) |->
     [chunk[s] EXCEPT !.tokens = SelectSeq(chunk[s].tokens, LAMBDA w : w # "")]]

\* f"doc_{i}"
DocNode(i) == "doc_" \o ToString(i)

\* util.pytorch_cos_sim(a, b).item() in hundredths; an embedding is a unit
\* vector in a plane, given by its angle in steps
CosineTable == <<100, 82, 70, 30>>
pytorch_cos_sim(a, b) == CosineTable[(IF a >= b THEN a - b ELSE b - a) + 1]

\* one statement after another: the graph a statement leaves is computed
\* once and is the graph the rest of the code runs on
After(g, Rest(_)) == CHOOSE r \in {Rest(x) : x \in {g}} : TRUE

RECURSIVE AddEntities(_, _, _)
\* for entity, entity_type in key_entities
AddEntities(g, doc_node, key_entities) ==
  IF key_entities = <<>> THEN g
  ELSE LET entity == Head(key_entities)[1]
           entity_type == Head(key_entities)[2]
           g1 == IF ~has_node(g, entity)
                   THEN add_node(g, entity, [type |-> "entity", entity_type |-> entity_type])
                   ELSE g
       IN  After(add_edge(g1, doc_node, entity, [relation |-> "contains"]),
                 LAMBDA g2 : AddEntities(g2, doc_node, Tail(key_entities)))

RECURSIVE AddTriples(_, _)
\* for subj, rel, obj in triples + family_triples
AddTriples(g, triples) ==
  IF triples = <<>> THEN g
  ELSE LET t == Head(triples)
       IN  After(add_edge(g, t[1], t[3], [relation |-> t[2]]),
                 LAMBDA g1 : AddTriples(g1, Tail(triples)))

\* the triples applied for one chunk, in order
ChunkTriples(chunk) ==
  extract_relations(chunk, extract_key_entities(chunk)) \o extract_family_relations(chunk)

\* the body of `for i, chunk in enumerate(data)`
AddChunk(g, i, raw) ==
  LET chunk == preprocess_text(raw)
      key_entities == extract_key_entities(chunk)
      doc_node == DocNode(i)
  IN  After(add_node(g, doc_node, [type |-> "document", text |-> chunk]),
            LAMBDA g1 : After(AddEntities(g1, doc_node, key_entities),
                              LAMBDA g2 : AddTriples(g2, ChunkTriples(chunk))))

RECURSIVE AddChunks(_, _, _)
\* the graph after the first n chunks
AddChunks(g, chunks, n) ==
  IF n = 0 THEN g
  ELSE After(AddChunks(g, chunks, n - 1), LAMBDA g1 : AddChunk(g1, n - 1, chunks[n]))

\* similarity >= 0.7 in place of similarity > 0.7
IsSimilarInclusive(similarity) == similarity >= SimilarityThreshold

\* if similarity > 0.7
IsSimilar(similarity) == similarity > SimilarityThreshold

RECURSIVE AddSimilarity(_, _, _, _)
\* the loop over pairs of document nodes; embeddings[i] is the (i+1)-th element
AddSimilarity(g, doc_nodes, embs, pairs) ==
  IF pairs = <<>> THEN g
  ELSE LET i == Head(pairs)[1]
           j == Head(pairs)[2]
           similarity == pytorch_cos_sim(embs[i], embs[j])
           g1 == IF IsSimilar(similarity)
                   THEN add_edge(g, doc_nodes[i], doc_nodes[j],
                                 [relation |-> "similar", weight |-> similarity])
                   ELSE g
       IN  After(g1, LAMBDA g2 : AddSimilarity(g2, doc_nodes, embs, Tail(pairs)))

\* "# Add edges between similar documents": a node without a type makes the
\* selection of the document nodes raise, a document node without an
\* embedding makes the lookup raise
SimilarityEdges(g1, embs) ==
  IF \E n \in Range(g1.nodes) : "type" \notin DOMAIN g1.attr[n]
    THEN [raised |-> "KeyError", graph |-> EmptyGraph]
  ELSE LET doc_nodes == SelectSeq(g1.nodes, LAMBDA n : g1.attr[n].type = "document")
           pairs == Pairs(Len(doc_nodes))
       IN  IF \E p \in Range(pairs) : p[2] > Len(embs)
             THEN [raised |-> "IndexError", graph |-> EmptyGraph]
             ELSE [raised |-> "",
                   graph |-> AddSimilarity(g1, doc_nodes, embs, pairs)]

\* the outcome of create_networkx_graph: the exception raised ("" when none)
\* and the graph returned
create_networkx_graph(chunks, embs) ==
  After(AddChunks(EmptyGraph, chunks, Len(chunks)), LAMBDA g1 : SimilarityEdges(g1, embs))

\* a prune that compares with <= and so removes the edges at the threshold too
EdgesToRemoveInclusive(g, threshold) ==
  {e \in DOMAIN g.edge :
     "weight" \in DOMAIN g.edge[e] /\ g.edge[e].weight <= threshold}

\* a prune that reads a missing weight as 0: d.get('weight', 0) < min_edge_weight
EdgesToRemoveDefaultZero(g, threshold) ==
  {e \in DOMAIN g.edge :
     (IF "weight" \in DOMAIN g.edge[e] THEN g.edge[e].weight ELSE 0) < threshold}

\* edges_to_remove
EdgesToRemove(g, threshold) ==
  {e \in DOMAIN g.edge :
     "weight" \in DOMAIN g.edge[e] /\ g.edge[e].weight < threshold}

prune_graph(g, threshold) ==
  remove_edges_from(g, EdgesToRemove(g, threshold))

(***************************************************************************)
(* save_graph_json, node_link_graph and create_knowledge_graph             *)
(***************************************************************************)
RECURSIVE EdgeList(_, _, _)
\* G.edges(data=True): each edge once, by node order and neighbour order
EdgeList(g, pending, seen) ==
  IF pending = <<>> THEN <<>>
  ELSE LET n == Head(pending)
           fresh == SelectSeq(neighbors(g, n), LAMBDA m : EdgeKey(n, m) \notin seen)
       IN  [x \in 1..Len(fresh) |->
              [source |-> n, target |-> fresh[x], attrs |-> g.edge[EdgeKey(n, fresh[x])]]]
           \o EdgeList(g, Tail(pending),
                       seen \cup {EdgeKey(n, fresh[x]) : x \in 1..Len(fresh)})

\* nx.node_link_data(G): what save_graph_json writes
node_link_data(g) ==
  [nodes |-> [x \in 1..Len(g.nodes) |-> [id |-> g.nodes[x], attrs |-> g.attr[g.nodes[x]]]],
   links |-> EdgeList(g, g.nodes, {})]

RECURSIVE LoadNodes(_, _)
LoadNodes(g, nodes) ==
  IF nodes = <<>> THEN g
  ELSE After(add_node(g, Head(nodes).id, Head(nodes).attrs),
             LAMBDA g1 : LoadNodes(g1, Tail(nodes)))

RECURSIVE LoadLinks(_, _)
LoadLinks(g, links) ==
  IF links = <<>> THEN g
  ELSE After(add_edge(g, Head(links).source, Head(links).target, Head(links).attrs),
             LAMBDA g1 : LoadLinks(g1, Tail(links)))

\* nx.node_link_graph(graph_data)
node_link_graph(graph_data) ==
  After(LoadNodes(EmptyGraph, graph_data.nodes), LAMBDA g : LoadLinks(g, graph_data.links))

\* create_knowledge_graph on content and embeddings for which the build does
\* not raise: the graph it returns
create_knowledge_graph(content, embs) ==
  prune_graph(create_networkx_graph(content, embs).graph, DefaultMinEdgeWeight)

(***************************************************************************)
(* SearchUtils.  self is a record [model_has_encode, db_embeddings,        *)
(* db_content, knowledge_graph]; db_embeddings is [ndim, rows], ndim 1 for *)
(* np.array([]) and 2 for a stored (N, D) array of one angle per row; a    *)
(* content string is the sequence of its words.  cfg is the settings       *)
(* object.  A search returns [raised, value]: the exception ("" when none) *)
(* and the list.                                                           *)
(***************************************************************************)
EmptyArray == [ndim |-> 1, rows |-> <<>>]

Returns(v) == [raised |-> "", value |-> v]
Raises(e) == [raised |-> e, value |-> <<>>]

\* s[:k] for k >= 0
SliceHead(s, k) == SubSeq(s, 1, IF k < Len(s) THEN k ELSE Len(s))

\* s[-k:] for k >= 0: -0 is 0, so s[-0:] is all of s
SliceTail(s, k) ==
  IF k = 0 THEN s
  ELSE SubSeq(s, (IF k < Len(s) THEN Len(s) - k ELSE 0) + 1, Len(s))

\* s[::-1]
Reversed(s) == [x \in 1..Len(s) |-> s[Len(s) + 1 - x]]

RECURSIVE SortIndices(_, _, _)
\* the indices in `left` ordered by score; equal scores keep their index order
SortIndices(scores, left, descending) ==
  IF left = {} THEN <<>>
  ELSE LET best == CHOOSE i \in left :
                     \A j \in left :
                       \/ (IF descending THEN scores[i] > scores[j] ELSE scores[i] < scores[j])
                       \/ (scores[i] = scores[j] /\ i <= j)
       IN  <<best>> \o SortIndices(scores, left \ {best}, descending)

\* sorted(range(len(scores)), key=lambda i: scores[i], reverse=True), 1-based
SortedDescending(scores) == SortIndices(scores, 1..Len(scores), TRUE)

\* scores.argsort(), 1-based (ties in index order)
ArgSort(scores) == SortIndices(scores, 1..Len(scores), FALSE)

\* set(re.findall(r'\w+', s.lower()))
WordSet(words) == {Lower(Chars(words[x])) : x \in 1..Len(words)}

\* `term in content.lower()`, term already lowercased
TermInContent(term, content) == IsSubstring(term, Lower(JoinChars(content)))

RECURSIVE Sum(_)
Sum(ns) == IF ns = <<>> THEN 0 ELSE Head(ns) + Sum(Tail(ns))

\* [str(self.db_content[i].strip()) for i in top_indices]
ContentAt(self, top_indices) ==
  [x \in 1..Len(top_indices) |-> self.db_content[top_indices[x]]]

lexical_search(self, cfg, query) ==
  IF ~cfg.enable_lexical_search THEN Returns(<<>>)
  ELSE LET query_words == WordSet(query)
           overlap_scores ==
             [i \in 1..Len(self.db_content) |->
                Cardinality(query_words \cap WordSet(self.db_content[i]))]
           top_indices == SliceHead(SortedDescending(overlap_scores), cfg.top_k)
       IN  Returns(ContentAt(self, top_indices))

\* self.model.encode([query]): the encoder is a fixed function of the text
Encode(query) == IF Len(query) = 1 THEN 0 ELSE 1

\* cos_scores.argsort()[-settings.top_k:][::-1]
EncodeTopIndices(cos_scores, top_k) == Reversed(SliceTail(ArgSort(cos_scores), top_k))

semantic_search(self, cfg, query) ==
  IF ~cfg.enable_semantic_search THEN Returns(<<>>)
  ELSE IF self.model_has_encode
    THEN IF self.db_embeddings.ndim = 1
           THEN Raises("ValueError")   \* np.dot of shapes (0,) and (D, 1)
           ELSE LET input_embedding == Encode(query)
                    cos_scores ==
                      [i \in 1..Len(self.db_embeddings.rows) |->
                         pytorch_cos_sim(self.db_embeddings.rows[i], input_embedding)]
                    top_indices == EncodeTopIndices(cos_scores, cfg.top_k)
                IN  IF \E x \in 1..Len(top_indices) : top_indices[x] > Len(self.db_content)
                      THEN Raises("IndexError")
                      ELSE Returns(ContentAt(self, top_indices))
    ELSE LET query_words == WordSet(query)    \* set(query.lower().split())
             scores ==
               [i \in 1..Len(self.db_content) |->
                  Cardinality({w \in query_words : TermInContent(w, self.db_content[i])})]
             top_indices == SliceHead(SortedDescending(scores), cfg.top_k)
         IN  Returns(ContentAt(self, top_indices))

\* the first neighbour of type 'document', None ("") when there is none
get_parent_document(g, chunk_node) ==
  LET docs == SelectSeq(neighbors(g, chunk_node), LAMBDA n : g.attr[n].type = "document")
  IN  IF docs = <<>> THEN "" ELSE Head(docs)

\* the node type get_graph_context takes a passage node to have
ChunkType == "chunk"

\* [n for n in neighbors(node) if nodes[n]['type'] == 'chunk']
ConnectedChunks(g, node) ==
  SelectSeq(neighbors(g, node), LAMBDA n : g.attr[n].type = ChunkType)

ConfidenceDefault == 500    \* data.get('confidence', 0.5), in thousandths

\* relevance_score of an entity node, in thousandths
RelevanceScore(g, node, query) ==
  LET data_ == g.attr[node]
      confidence == IF "confidence" \in DOMAIN data_ THEN data_.confidence
                    ELSE ConfidenceDefault
      connected_chunks == ConnectedChunks(g, node)
      connected_docs == {get_parent_document(g, connected_chunks[x]) :
                           x \in 1..Len(connected_chunks)}
      mention == IF IsSubstring(Lower(Chars(node)), Lower(JoinChars(query)))
                   THEN 1000 ELSE 0
  IN  ((mention + Len(connected_chunks) * 100 + Cardinality(connected_docs) * 200)
         * confidence) \div 1000

\* the bundle of one entity: what the context text is formatted from
EntityContext(g, entity) ==
  LET connected_chunks == ConnectedChunks(g, entity)
      related_entities == SelectSeq(neighbors(g, entity), LAMBDA n : g.attr[n].type = "entity")
      first3 == SliceHead(connected_chunks, 3)
  IN  [entity |-> entity,
       entity_type |-> IF "entity_type" \in DOMAIN g.attr[entity]
                         THEN g.attr[entity].entity_type ELSE "Unknown",
       related |-> SliceHead(related_entities, 5),
       chunks |-> [x \in 1..Len(first3) |->
                     IF "text" \in DOMAIN g.attr[first3[x]]
                       THEN g.attr[first3[x]].text ELSE <<>>]]

get_graph_context(self, cfg, query) ==
  LET g == self.knowledge_graph
  IN  IF ~cfg.enable_graph_search \/ g.nodes = <<>> THEN Returns(<<>>)
      ELSE IF \E n \in Range(g.nodes) :
                /\ "type" \in DOMAIN g.attr[n] /\ g.attr[n].type = "entity"
                /\ \E m \in Range(neighbors(g, n)) : "type" \notin DOMAIN g.attr[m]
        THEN Raises("KeyError")
      ELSE LET entities ==
                 SelectSeq(g.nodes,
                           LAMBDA n : /\ "type" \in DOMAIN g.attr[n]
                                      /\ g.attr[n].type = "entity"
                                      /\ RelevanceScore(g, n, query)
                                           >= cfg.entity_relevance_threshold)
               scores == [x \in 1..Len(entities) |-> RelevanceScore(g, entities[x], query)]
               top == SliceHead(SortedDescending(scores), cfg.top_k)
           IN  Returns([x \in 1..Len(top) |-> EntityContext(g, entities[top[x]])])

text_search(self, cfg, query) ==
  IF ~cfg.enable_text_search THEN Returns(<<>>)
  ELSE LET query_terms == [x \in 1..Len(query) |-> Lower(Chars(query[x]))]
           Matches(content) ==
             Sum([x \in 1..Len(query_terms) |->
                    IF TermInContent(query_terms[x], content) THEN 1 ELSE 0])
           results == SelectSeq(self.db_content, LAMBDA content : Matches(content) > 0)
           scores == [x \in 1..Len(results) |-> Matches(results[x])]
           order == SliceHead(SortedDescending(scores), cfg.top_k)
       IN  Returns([x \in 1..Len(order) |-> results[order[x]]])

\* the guard of get_relevant_context with `and` in place of `or`
DataMissingBoth(self) ==
  Len(self.db_embeddings.rows) = 0 /\ Len(self.db_content) = 0

\* self.db_embeddings.size == 0 or len(self.db_content) == 0
DataMissing(self) ==
  Len(self.db_embeddings.rows) = 0 \/ Len(self.db_content) = 0

\* the value is the tuple of the four lists; an exception of a strategy propagates
get_relevant_context(self, cfg, user_input, conversation_context) ==
  IF DataMissing(self) THEN Returns(<< <<>>, <<>>, <<>>, <<>> >>)
  ELSE LET search_query == Flatten(conversation_context) \o user_input
           lexical_results == lexical_search(self, cfg, search_query)
           semantic_results == semantic_search(self, cfg, search_query)
           graph_results == get_graph_context(self, cfg, search_query)
           text_results == text_search(self, cfg, search_query)
       IN  IF lexical_results.raised # "" THEN lexical_results
           ELSE IF semantic_results.raised # "" THEN semantic_results
           ELSE IF graph_results.raised # "" THEN graph_results
           ELSE IF text_results.raised # "" THEN text_results
           ELSE Returns(<< lexical_results.value, semantic_results.value,
                           graph_results.value, text_results.value >>)

\* SearchUtils.__init__: the arguments are the model, and for each artifact
\* whether the caller passes it (args) and, if not, the state of its file
\* (files: "ok", "missing" or "unreadable") and what a readable file holds
\* (store).  The result is [raised, self].
SearchUtilsInit(has_encode, args, files, store) ==
  LET supplied == args.db_embeddings /\ args.db_content
      db_emb == IF supplied \/ files.embeddings = "ok"
                  THEN [ndim |-> 2, rows |-> store.embeddings]
                  ELSE EmptyArray
      db_con == IF supplied \/ files.content = "ok" THEN store.content ELSE <<>>
      fields == [model_has_encode |-> has_encode, db_embeddings |-> db_emb,
                 db_content |-> db_con, knowledge_graph |-> EmptyGraph]
  IN  IF args.knowledge_graph
        THEN [raised |-> "", self |-> [fields EXCEPT !.knowledge_graph = store.graph]]
      ELSE IF files.graph = "ok"
        THEN [raised |-> "",
              self |-> [fields EXCEPT !.knowledge_graph = node_link_graph(store.graph_data)]]
      ELSE IF files.graph = "unreadable"
        THEN [raised |-> "JSONDecodeError", self |-> fields]
      ELSE [raised |-> "", self |-> fields]

(***************************************************************************)
(* The texts the model draws from.                                         *)
(***************************************************************************)
Vocabulary ==
  {"John", "Mary", "Jason", "Acme", "sister", "parent", "grandparent", "uncle", "met"}

SeqsUpTo(S, n) == UNION {[1..k -> S] : k \in 0..n}

\* one-sentence texts of at most MaxTokens words
FamilyTexts ==
  {<< [tokens |-> ws, tree |-> "flat"] >> : ws \in SeqsUpTo(Vocabulary, MaxTokens) \ {<<>>}}

\* the chunks of a corpus: one sentence of an entity, a word and an entity
\* (a right-branching parse only where it changes the path relation), or a
\* sentence without entities
BuildChunks ==
  {<< [tokens |-> <<a, w, b>>, tree |-> t] >> :
     a \in {"John", "Mary"}, w \in {"parent"}, b \in {"John", "Mary"}, t \in {"flat"}}
  \cup
  {<< [tokens |-> <<a, w, b>>, tree |-> t] >> :
     a \in {"John", "Mary"}, w \in {"of"}, b \in {"John", "Mary"}, t \in {"flat", "right"}}
  \cup
  {<< [tokens |-> <<"met">>, tree |-> "flat"] >>}

\* the chunks of a corpus whose embeddings vary
SimChunks ==
  { << [tokens |-> <<"met">>, tree |-> "flat"] >>,
    << [tokens |-> <<"John", "parent", "Mary">>, tree |-> "flat"] >> }

\* the angles of the embeddings: cosines 1.0, 0.82, 0.7 and 0.3 between them
Angles == {0, 1, 3}

\* the thresholds prune_graph is called with
Thresholds == {DefaultMinEdgeWeight, 82, 90, 101}

\* the stored corpora: none, one chunk without entities, two chunks that both
\* name Mary and are not similar to each other
StoredCorpora ==
  { [content |-> <<>>, embeddings |-> <<>>],
    [content |-> << << [tokens |-> <<"met">>, tree |-> "flat"] >> >>, embeddings |-> <<0>>],
    [content |-> << << [tokens |-> <<"John", "sister", "Mary">>, tree |-> "flat"] >>,
                    << [tokens |-> <<"Mary", "met", "Acme">>, tree |-> "flat"] >> >>,
     embeddings |-> <<0, 3>>] }

\* db_content.txt holds one line per chunk: its words
Lines(content) == [i \in 1..Len(content) |-> DocTokens(content[i])]

Stores ==
  { [content |-> Lines(c.content),
     embeddings |-> c.embeddings,
     graph |-> create_knowledge_graph(c.content, c.embeddings),
     graph_data |-> node_link_data(create_knowledge_graph(c.content, c.embeddings))] :
    c \in StoredCorpora }

FileStates == {"ok", "missing", "unreadable"}

RelevanceThresholds == {500, 600}

Settings ==
  [enable_lexical_search : BOOLEAN, enable_semantic_search : BOOLEAN,
   enable_graph_search : BOOLEAN, enable_text_search : BOOLEAN,
   top_k : 0..MaxTopK, entity_relevance_threshold : RelevanceThresholds]

\* the query strings, as words
Queries == { <<"Mary">>, <<"John", "sister">> }

\* the conversation contexts: lists of strings
Contexts == { <<>>, << <<"sister">> >> }

vars ==
  <<text, family_triples, fpc, data, embeddings, G, pc, min_edge_weight, G_before,
    ctor, search_utils, spc, settings, call, result>>

NoSelf ==
  [model_has_encode |-> FALSE, db_embeddings |-> EmptyArray, db_content |-> <<>>,
   knowledge_graph |-> EmptyGraph]

NoSettings ==
  [enable_lexical_search |-> TRUE, enable_semantic_search |-> TRUE,
   enable_graph_search |-> TRUE, enable_text_search |-> TRUE,
   top_k |-> 0, entity_relevance_threshold |-> 500]

NoCall == [op |-> "", query |-> <<>>]

SearchIdle ==
  /\ ctor = <<>>
  /\ search_utils = NoSelf
  /\ spc = "idle"
  /\ settings = NoSettings
  /\ call = NoCall
  /\ result = Returns(<<>>)

searchvars == <<ctor, search_utils, spc, settings, call, result>>

FamilyIdle == text = <<>> /\ family_triples = <<>> /\ fpc = "idle"

BuildIdle ==
  /\ data = <<>>
  /\ embeddings = <<>>
  /\ G = EmptyGraph
  /\ pc = "idle"
  /\ min_edge_weight = DefaultMinEdgeWeight
  /\ G_before = EmptyGraph

buildvars == <<data, embeddings, G, pc, min_edge_weight, G_before>>
familyvars == <<text, family_triples, fpc>>

(***************************************************************************)
(* Specification of the family pass: one call on any text.                 *)
(***************************************************************************)
FamilyInit ==
  /\ text \in FamilyTexts
  /\ family_triples = <<>>
  /\ fpc = "call"
  /\ BuildIdle
  /\ SearchIdle

ExtractFamilyRelations ==
  /\ fpc = "call"
  /\ family_triples' = extract_family_relations(text)
  /\ fpc' = "done"
  /\ UNCHANGED <<text, buildvars, searchvars>>

FamilyNext == ExtractFamilyRelations

SpecFamily == FamilyInit /\ [][FamilyNext]_vars

(***************************************************************************)
(* Specification of graph construction: create_networkx_graph on any       *)
(* corpus and embeddings, then any number of prune_graph calls.            *)
(***************************************************************************)
BuildInit ==
  /\ data \in SeqsUpTo(BuildChunks, MaxChunks)
  /\ embeddings = [i \in 1..Len(data) |-> 0]
  /\ G = EmptyGraph
  /\ pc = "start"
  /\ min_edge_weight = DefaultMinEdgeWeight
  /\ G_before = EmptyGraph
  /\ FamilyIdle
  /\ SearchIdle

\* the same operations on corpora of few texts, with any embeddings, as many
\* as the chunks or not
SimilarityInit ==
  /\ data \in SeqsUpTo(SimChunks, MaxSimChunks)
  /\ embeddings \in SeqsUpTo(Angles, MaxSimChunks + 1)
  /\ G = EmptyGraph
  /\ pc = "start"
  /\ min_edge_weight = DefaultMinEdgeWeight
  /\ G_before = EmptyGraph
  /\ FamilyIdle
  /\ SearchIdle

CreateNetworkxGraph ==
  /\ pc = "start"
  /\ \E r \in {create_networkx_graph(data, embeddings)} :
       /\ pc' = IF r.raised = "" THEN "built" ELSE r.raised
       /\ G' = r.graph
  /\ UNCHANGED <<data, embeddings, min_edge_weight, G_before, familyvars, searchvars>>

PruneGraph(t) ==
  /\ pc \in {"built", "pruned"}
  /\ G_before' = G
  /\ min_edge_weight' = t
  /\ G' = prune_graph(G, t)
  /\ pc' = "pruned"
  /\ UNCHANGED <<data, embeddings, familyvars, searchvars>>

BuildNext ==
  \/ CreateNetworkxGraph
  \/ \E t \in Thresholds : PruneGraph(t)

SpecBuild == BuildInit /\ [][BuildNext]_vars

SpecSimilarity == SimilarityInit /\ [][BuildNext]_vars

(***************************************************************************)
(* Specification of SearchUtils.__init__: one construction, for every      *)
(* combination of artifacts passed by the caller, readable, missing or     *)
(* unreadable.                                                             *)
(***************************************************************************)
CtorInputs ==
  [has_encode : BOOLEAN,
   args : [db_embeddings : BOOLEAN, db_content : BOOLEAN, knowledge_graph : BOOLEAN],
   files : [embeddings : FileStates, content : FileStates, graph : FileStates],
   store : Stores]

InitInit ==
  /\ ctor \in CtorInputs
  /\ search_utils = NoSelf
  /\ spc = "new"
  /\ settings = NoSettings
  /\ call = NoCall
  /\ result = Returns(<<>>)
  /\ FamilyIdle
  /\ BuildIdle

Construct ==
  /\ spc = "new"
  /\ LET r == SearchUtilsInit(ctor.has_encode, ctor.args, ctor.files, ctor.store)
     IN  /\ spc' = IF r.raised = "" THEN "ready" ELSE "raised"
         /\ search_utils' = IF r.raised = "" THEN r.self ELSE search_utils
  /\ UNCHANGED <<ctor, settings, call, result, familyvars, buildvars>>

InitNext == Construct

SpecInit == InitInit /\ [][InitNext]_vars

(***************************************************************************)
(* Specification of retrieval: a construction from the files (each there   *)
(* or missing) or from the caller's artifacts, then any calls.             *)
(***************************************************************************)
SearchInit ==
  /\ ctor \in {c \in CtorInputs :
                 /\ c.args.db_embeddings = c.args.db_content
                 /\ c.args.db_content = c.args.knowledge_graph
                 /\ \A f \in {"embeddings", "content", "graph"} :
                      c.files[f] \in (IF c.args.db_content THEN {"missing"}
                                      ELSE {"ok", "missing"})}
  /\ search_utils = NoSelf
  /\ spc = "new"
  /\ settings = NoSettings
  /\ call = NoCall
  /\ result = Returns(<<>>)
  /\ FamilyIdle
  /\ BuildIdle

\* a call on the constructed object, once the previous call has returned
Call(op, cfg, query, r) ==
  /\ spc = "ready"
  /\ call = NoCall
  /\ settings' = cfg
  /\ call' = [op |-> op, query |-> query]
  /\ result' = r
  /\ UNCHANGED <<ctor, search_utils, spc, familyvars, buildvars>>

LexicalSearch(cfg, query) ==
  Call("lexical_search", cfg, query, lexical_search(search_utils, cfg, query))

SemanticSearch(cfg, query) ==
  Call("semantic_search", cfg, query, semantic_search(search_utils, cfg, query))

GetGraphContext(cfg, query) ==
  Call("get_graph_context", cfg, query, get_graph_context(search_utils, cfg, query))

TextSearch(cfg, query) ==
  Call("text_search", cfg, query, text_search(search_utils, cfg, query))

GetRelevantContext(cfg, user_input, conversation_context) ==
  Call("get_relevant_context", cfg, Flatten(conversation_context) \o user_input,
       get_relevant_context(search_utils, cfg, user_input, conversation_context))

\* the caller has taken the result: the object is ready for the next call
Return ==
  /\ spc = "ready"
  /\ call # NoCall
  /\ settings' = NoSettings
  /\ call' = NoCall
  /\ result' = Returns(<<>>)
  /\ UNCHANGED <<ctor, search_utils, spc, familyvars, buildvars>>

SearchNext ==
  \/ Construct
  \/ Return
  \/ \E cfg \in Settings, query \in Queries : LexicalSearch(cfg, query)
  \/ \E cfg \in Settings, query \in Queries : SemanticSearch(cfg, query)
  \/ \E cfg \in Settings, query \in Queries : GetGraphContext(cfg, query)
  \/ \E cfg \in Settings, query \in Queries : TextSearch(cfg, query)
  \/ \E cfg \in Settings, user_input \in Queries, conversation_context \in Contexts :
       GetRelevantContext(cfg, user_input, conversation_context)

SpecSearch == SearchInit /\ [][SearchNext]_vars

(***************************************************************************)
(* C4.  The reciprocal family rule.                                        *)
(***************************************************************************)
PersonPositions(sent) ==
  {i \in 1..Len(sent.tokens) : NerLabel(sent.tokens[i]) = "PERSON"}

KeywordsFound(sent) ==
  {FAMILY_RELATIONS[r] : r \in {q \in 1..Len(FAMILY_RELATIONS) : InSentence(FAMILY_RELATIONS[q], sent)}}

\* the (sentence, i, j, keyword) combinations the rule speaks of
FamilyCases ==
  UNION {{c \in {s} \X PersonPositions(text[s]) \X PersonPositions(text[s])
                    \X KeywordsFound(text[s]) : c[2] < c[3]} : s \in 1..Len(text)}

Reciprocated == {"sister", "brother", "parent"}

\* C4: for every sentence, every pair of Person entities a before b and every
\* family keyword k found in the sentence, (a, k, b) is emitted; (b, k, a) too
\* when k is sister or brother; (b, child, a) too when k is parent; every child
\* triple is accompanied by the opposite parent triple; no other triple is
\* emitted (one per case, two for the reciprocated keywords); and John, sister,
\* Mary yields exactly (John, sister, Mary), (Mary, sister, John).
C4_ReciprocalFamilyRule ==
  fpc = "done" =>
    LET out == Range(family_triples)
    IN  /\ \A c \in FamilyCases :
             LET a == text[c[1]].tokens[c[2]]
                 b == text[c[1]].tokens[c[3]]
                 k == c[4]
             IN  /\ <<a, k, b>> \in out
                 /\ k \in {"sister", "brother"} => <<b, k, a>> \in out
                 /\ k = "parent" => <<b, "child", a>> \in out
                 /\ (k \notin Reciprocated /\ a # b
                       /\ Cardinality(PersonPositions(text[c[1]])) = 2)
                      => <<b, k, a>> \notin out
        /\ \A t \in out : t[2] = "child" => <<t[3], "parent", t[1]>> \in out
        /\ Len(family_triples) =
             2 * Cardinality({c \in FamilyCases : c[4] \in Reciprocated})
               + Cardinality({c \in FamilyCases : c[4] \notin Reciprocated})
        /\ text = << [tokens |-> <<"John", "sister", "Mary">>, tree |-> "flat"] >>
             => family_triples = << <<"John", "sister", "Mary">>, <<"Mary", "sister", "John">> >>

\* a sentence with parent and grandparent: one keyword reciprocated, one not
C4_Witness ==
  /\ fpc = "done"
  /\ <<"Mary", "child", "John">> \in Range(family_triples)
  /\ <<"John", "grandparent", "Mary">> \in Range(family_triples)
  /\ <<"Mary", "grandparent", "John">> \notin Range(family_triples)

(***************************************************************************)
(* Claims on graph construction and pruning.                               *)
(***************************************************************************)
HasWeight(g, e) == "weight" \in DOMAIN g.edge[e]

\* C2: after prune_graph(G, t) every remaining edge with a weight has weight
\* >= t; the nodes and their attributes, every edge without a weight and every
\* weighted edge with weight >= t are as they were; nothing else remains.
C2_PruningInvariant ==
  pc = "pruned" =>
    /\ \A e \in DOMAIN G.edge : HasWeight(G, e) => G.edge[e].weight >= min_edge_weight
    /\ G.nodes = G_before.nodes
    /\ G.attr = G_before.attr
    /\ \A e \in DOMAIN G_before.edge :
         (~HasWeight(G_before, e) \/ G_before.edge[e].weight >= min_edge_weight)
           => (e \in DOMAIN G.edge /\ G.edge[e] = G_before.edge[e])
    /\ DOMAIN G.edge \subseteq DOMAIN G_before.edge
    /\ \A n \in Range(G.nodes) :
         Range(G.adj[n]) = {m \in Range(G.nodes) : {n, m} \in DOMAIN G.edge}

\* a prune that removed one weighted edge, kept another and kept a contains edge
C2_Witness ==
  /\ pc = "pruned"
  /\ DOMAIN G_before.edge \ DOMAIN G.edge # {}
  /\ \E e \in DOMAIN G.edge : HasWeight(G, e)
  /\ \E e \in DOMAIN G.edge : ~HasWeight(G, e) /\ G.edge[e].relation = "contains"

C5_MismatchIsInvalidInput ==
  (pc # "start" /\ Len(data) # Len(embeddings)) => pc = "InvalidInput"

IsPassage(g, n) == "type" \in DOMAIN g.attr[n] /\ g.attr[n].type = "document"

IsEntity(g, n) ==
  /\ {"type", "entity_type"} \subseteq DOMAIN g.attr[n]
  /\ g.attr[n].type = "entity"

AppliedTriples == Flatten([i \in 1..Len(data) |-> ChunkTriples(preprocess_text(data[i]))])

\* C10: for every ordered pair (a, b) with an applied triple (a, r, b), the
\* graph holds a relation edge from a to b labelled by the last applied triple
\* with subject a and object b, so a triple and its reciprocal are both kept.
C10_LastTriplePerOrderedPair ==
  pc = "built" =>
    LET applied == AppliedTriples
    IN  \A x \in 1..Len(applied) :
          LET a == applied[x][1]
              b == applied[x][3]
              last == CHOOSE y \in 1..Len(applied) :
                        /\ applied[y][1] = a /\ applied[y][3] = b
                        /\ \A z \in (y + 1)..Len(applied) :
                             ~(applied[z][1] = a /\ applied[z][3] = b)
          IN  /\ {a, b} \in DOMAIN G.edge
              /\ G.edge[{a, b}].relation = applied[last][2]

(***************************************************************************)
(* Claims on SearchUtils.                                                  *)
(***************************************************************************)
Strategies == {"lexical_search", "semantic_search", "get_graph_context", "text_search"}

\* C1: on a store whose embeddings are index-aligned with its content, and for
\* every top_k >= 0, each of the four strategies returns at most top_k results
\* (stated for the calls that return).
C1_TopKBound ==
  ( /\ call.op \in Strategies
    /\ Len(search_utils.db_embeddings.rows) = Len(search_utils.db_content)
    /\ result.raised = "" )
    => Len(result.value) <= settings.top_k

\* whether __init__ has the artifact: passed by the caller, or in a readable file
Loadable(artifact) ==
  IF artifact = "graph"
    THEN ctor.args.knowledge_graph \/ ctor.files.graph = "ok"
    ELSE (ctor.args.db_embeddings /\ ctor.args.db_content) \/ ctor.files[artifact] = "ok"

\* C6: __init__ completes for every combination of artifacts passed, readable,
\* missing or unreadable, with an empty db_embeddings, db_content or graph for
\* each artifact it could not load.
C6_InitNeverFails ==
  spc # "new" =>
    /\ spc = "ready"
    /\ ~Loadable("embeddings") => search_utils.db_embeddings.rows = <<>>
    /\ ~Loadable("content") => search_utils.db_content = <<>>
    /\ ~Loadable("graph") => search_utils.knowledge_graph = EmptyGraph

\* C7: get_relevant_context returns four empty lists, raising nothing, whenever
\* db_embeddings or db_content is empty; otherwise it returns the four lists of
\* lexical_search, semantic_search, get_graph_context and text_search in that
\* order, the list of a disabled strategy being empty.
C7_RelevantContext ==
  call.op = "get_relevant_context" =>
    IF search_utils.db_embeddings.rows = <<>> \/ search_utils.db_content = <<>>
      THEN result = [raised |-> "", value |-> << <<>>, <<>>, <<>>, <<>> >>]
      ELSE /\ result.raised = ""
           /\ Len(result.value) = 4
           /\ result.value[1] = lexical_search(search_utils, settings, call.query).value
           /\ result.value[2] = semantic_search(search_utils, settings, call.query).value
           /\ result.value[3] = get_graph_context(search_utils, settings, call.query).value
           /\ result.value[4] = text_search(search_utils, settings, call.query).value
           /\ ~settings.enable_lexical_search => result.value[1] = <<>>
           /\ ~settings.enable_semantic_search => result.value[2] = <<>>
           /\ ~settings.enable_graph_search => result.value[3] = <<>>
           /\ ~settings.enable_text_search => result.value[4] = <<>>

\* embeddings loaded, content missing: the call returns four empty lists where
\* semantic_search, if invoked, would index an empty db_content
C7_Witness ==
  /\ call.op = "get_relevant_context"
  /\ search_utils.db_embeddings.rows # <<>>
  /\ search_utils.db_content = <<>>
  /\ search_utils.model_has_encode
  /\ settings.enable_semantic_search
  /\ settings.top_k > 0
  /\ result = [raised |-> "", value |-> << <<>>, <<>>, <<>>, <<>> >>]

\* the relevance the claim gives an entity: (m + 0.1 c + 0.2 d) * confidence,
\* c the passage nodes adjacent to it, d their distinct parent documents
ClaimedRelevance(g, node, query) ==
  LET passages == {n \in Range(neighbors(g, node)) : IsPassage(g, n)}
      parents == {get_parent_document(g, p) : p \in passages}
      mention == IF IsSubstring(Lower(Chars(node)), Lower(JoinChars(query)))
                   THEN 1000 ELSE 0
      confidence == IF "confidence" \in DOMAIN g.attr[node] THEN g.attr[node].confidence
                    ELSE 500
  IN  ((mention + 100 * Cardinality(passages) + 200 * Cardinality(parents)) * confidence)
        \div 1000

\* C8: on a graph built by create_networkx_graph, get_graph_context returns the
\* entities whose relevance (m + 0.1 c + 0.2 d) * confidence is at least
\* entity_relevance_threshold, the top_k of them; Mary, named in the query and
\* contained in 2 passages with 1 parent, is returned at threshold 0.6.
C8_GraphRelevance ==
  ( /\ call.op = "get_graph_context"
    /\ settings.enable_graph_search
    /\ result.raised = "" )
    => LET g == search_utils.knowledge_graph
           qualifying == {n \in Range(g.nodes) :
                            /\ IsEntity(g, n)
                            /\ ClaimedRelevance(g, n, call.query)
                                 >= settings.entity_relevance_threshold}
           returned == {result.value[x].entity : x \in 1..Len(result.value)}
       IN  /\ returned \subseteq qualifying
           /\ Len(result.value) =
                (IF settings.top_k < Cardinality(qualifying) THEN settings.top_k
                 ELSE Cardinality(qualifying))
====
